---- MODULE Spec2Model ----
(***************************************************************************)
(* A model of monadic_context/context.py: the Context store, the           *)
(* combinator algebra (pure, map, bind, apply, then, traverse, ask,        *)
(* with_service) and the generator driver of requires / use.               *)
(*                                                                         *)
(* A Python dict is modelled as the sequence of its items in insertion     *)
(* order, each item a record [k |-> key, v |-> value], keys distinct.      *)
(* A Context is modelled as its _unsafe_map.  A Tag is modelled as its     *)
(* _id.  An exception is a record [exc, key, tagNotFound, available].      *)
(***************************************************************************)
EXTENDS Integers, Sequences, FiniteSets, TLC

VARIABLES
    \* ---- Context store -------------------------------------------------
    heap,       \* the Context objects created so far (each its _unsafe_map)
    created,    \* history: heap[i] as it was when Context i was created
    lastOp,     \* the last store operation, with its operands and result
    \* ---- requires driver (one invocation of requires._inner) -----------
    prog,       \* the body of the generator function f
    ctx,        \* c: the Context the computation is run against
    gen,        \* the generator object: [pc, recv, state]
    dpc,        \* position of the driver in _inner
    value,      \* local variable value
    tag,        \* local variable tag (the Tag most recently yielded)
    outcome,    \* what the run returned or raised
    trace,      \* history: the yields, lookups and resumptions of this run
    runs,       \* number of runs of the computation value started so far
    prior,      \* history: the outcome of the previous run
    \* ---- combinator algebra --------------------------------------------
    env,        \* the Context the combinators are run against
    call,       \* the combinator call made last, with its arguments
    res,        \* its outcome, with the log of the Context.run calls made
    res2        \* the outcome of the computation it is compared with

vars == <<heap, created, lastOp, prog, ctx, gen, dpc, value, tag, outcome,
          trace, runs, prior, env, call, res, res2>>
storeVars == <<heap, created, lastOp>>
driverVars == <<prog, ctx, gen, dpc, value, tag, outcome, trace, runs, prior>>
algVars == <<env, call, res, res2>>

\* ---------------------------------------------------------------- bounds
MaxHeap == 3        \* Context objects kept in the store model
MaxPairs == 2       \* pairs given to from_pairs
MaxProg == 3        \* instructions of a generator body
MaxRuns == 2        \* runs of one requires-built computation value
MaxXs == 3          \* elements given to traverse
MaxInt == 2         \* integer service values are 0..MaxInt-1

\* ----------------------------------------------------------- Python dict
Item(k, v) == [k |-> k, v |-> v]

\* list(d.keys())
DictKeys(d) == [i \in 1..Len(d) |-> d[i].k]

KeySet(d) == {d[i].k : i \in 1..Len(d)}

\* k in d
DictHas(d, k) == \E i \in 1..Len(d) : d[i].k = k

\* d[k], for k in d
DictGet(d, k) == d[CHOOSE i \in 1..Len(d) : d[i].k = k].v

\* d[k] = v: an existing key keeps its position, a new key is appended
DictSet(d, k, v) ==
    IF DictHas(d, k)
    THEN [i \in 1..Len(d) |-> IF d[i].k = k THEN Item(k, v) ELSE d[i]]
    ELSE Append(d, Item(k, v))

\* the dict built by storing the items of the sequence its, in order, into d
RECURSIVE DictUpdate(_, _)
DictUpdate(d, its) ==
    IF its = <<>> THEN d
    ELSE DictUpdate(DictSet(d, Head(its).k, Head(its).v), Tail(its))

\* ------------------------------------------------------------ exceptions
NoKey == "-"

\* KeyError(k), as raised by a dict lookup
RawKeyError(k) ==
    [exc |-> "KeyError", key |-> k, tagNotFound |-> FALSE, available |-> <<>>]

\* KeyError(f"Tag {e} not found in context. Available tags: {list(...)}")
TagNotFound(e, c) ==
    [exc |-> "KeyError", key |-> e.key, tagNotFound |-> TRUE,
     available |-> DictKeys(c)]

OtherError(name) ==
    [exc |-> name, key |-> NoKey, tagNotFound |-> FALSE, available |-> <<>>]

NoError == OtherError("none")

\* --------------------------------------------------------- Context store
\* Context({t._id: service})
of(service, t) == DictSet(<<>>, t, service)

\* Context({t._id: service for t, service in pairs})
from_pairs(pairs) == DictUpdate(<<>>, pairs)

\* from_pairs(*services.items()): the items of a dict, in insertion order
from_dict(services) == from_pairs(services)

join_self_wins(self, other) == DictUpdate(DictUpdate(<<>>, other), self)

\* Context({**self._unsafe_map, **other._unsafe_map})
join(self, other) == DictUpdate(DictUpdate(<<>>, self), other)

\* Context({**self._unsafe_map, t._id: service})
extend(self, t, service) == DictSet(DictUpdate(<<>>, self), t, service)

\* ------------------------------------------------- combinator algebra
(* A context-requiring computation is a closure; it is modelled as a record *)
(* that names the closure (op) and holds the values it closes over.  A      *)
(* function value is a record [fn |-> name, ...].                           *)
NoValue == "no value"

Ok(v, log) == [ok |-> TRUE, val |-> v, err |-> NoError, log |-> log]
Fail(e, log) == [ok |-> FALSE, val |-> NoValue, err |-> e, log |-> log]

pure(a) == [op |-> "pure", a |-> a]
ask(t) == [op |-> "ask", t |-> t]
map(ma, f) == [op |-> "map", ma |-> ma, f |-> f]
bind(ma, f) == [op |-> "bind", ma |-> ma, f |-> f]
apply(mab, ma) == [op |-> "apply", mab |-> mab, ma |-> ma]
traverse(xs, f) == [op |-> "traverse", xs |-> xs, f |-> f]
\* with_service(f, t)(args): lambda c: f(c._unsafe_map[t._id], *args)
service_call(f, t, arg) == [op |-> "service_call", f |-> f, t |-> t, arg |-> arg]

\* lambda _: lambda b: b
ConstId == [fn |-> "const_id"]
Id == [fn |-> "id"]

\* then(ma, mb): pipe(mb, map(lambda _: lambda b: b), apply(ma)).
\* pipe(value, fn1, fn2) is compose(fn1, fn2)(value), that is fn2(fn1(value));
\* the deferred map(f) is lambda a: map(a, f) and the deferred apply(ma) is
\* lambda a: apply(a, ma).
then(ma, mb) ==
    LET fn1(a) == map(a, ConstId)
        fn2(a) == apply(a, ma)
    IN  fn2(fn1(mb))

\* the functions of two arguments given to with_service in the tests
ServiceOp(f, s, x) ==
    CASE f = "add" -> s + x
      [] f = "mul" -> s * x
      [] f = "second" -> x

\* f(x), for a function value f
RECURSIVE ApplyFn(_, _)
ApplyFn(f, x) ==
    CASE f.fn = "id" -> x
      [] f.fn = "const_id" -> Id
      [] f.fn = "pure" -> pure(x)
      [] f.fn = "with_service" -> service_call(f.f, f.t, x)
      [] f.fn = "branch" -> IF x = 0 THEN ask(f.t1) ELSE ask(f.t2)
      [] f.fn = "kleisli" -> bind(ApplyFn(f.f, x), f.g)

RECURSIVE run(_, _)
RECURSIVE Invoke(_, _)

\* pure._inner
pure_inner(c, a) == Ok(a, <<>>)

\* ask._inner: c._unsafe_map[t._id]
ask_inner(c, t) ==
    IF DictHas(c, t) THEN Ok(DictGet(c, t), <<>>)
    ELSE Fail(RawKeyError(t), <<>>)

\* with_service: lambda c: f(c._unsafe_map[t._id], *args, **kwargs)
service_inner(c, f, t, arg) ==
    IF DictHas(c, t) THEN Ok(ServiceOp(f, DictGet(c, t), arg), <<>>)
    ELSE Fail(RawKeyError(t), <<>>)

\* map._inner: f(c.run(ma))
map_inner(c, ma, f) ==
    LET ra == run(c, ma)
    IN  IF ra.ok THEN Ok(ApplyFn(f, ra.val), ra.log) ELSE ra

bind_inner_keeps_first(c, ma, f) ==
    LET ra == run(c, ma)
    IN  IF ~ra.ok THEN ra
        ELSE LET rb == run(c, ApplyFn(f, ra.val))
             IN  IF ~rb.ok THEN [rb EXCEPT !.log = ra.log \o rb.log]
                 ELSE Ok(ra.val, ra.log \o rb.log)

\* bind._inner: a = c.run(ma); return c.run(f(a))
bind_inner(c, ma, f) ==
    LET ra == run(c, ma)
    IN  IF ~ra.ok THEN ra
        ELSE LET rb == run(c, ApplyFn(f, ra.val))
             IN  [rb EXCEPT !.log = ra.log \o rb.log]

\* apply._inner: a = c.run(ma); return c.run(mab)(a)
apply_inner(c, mab, ma) ==
    LET ra == run(c, ma)
    IN  IF ~ra.ok THEN ra
        ELSE LET rf == run(c, mab)
             IN  IF ~rf.ok THEN [rf EXCEPT !.log = ra.log \o rf.log]
                 ELSE Ok(ApplyFn(rf.val, ra.val), ra.log \o rf.log)

RECURSIVE traverse_inner_skip(_, _, _)
traverse_inner_skip(c, xs, f) ==
    IF xs = <<>> THEN Ok(<<>>, <<>>)
    ELSE LET rx == run(c, ApplyFn(f, Head(xs)))
             rest == traverse_inner_skip(c, Tail(xs), f)
         IN  IF ~rx.ok THEN [rest EXCEPT !.log = rx.log \o rest.log]
             ELSE IF ~rest.ok THEN [rest EXCEPT !.log = rx.log \o rest.log]
             ELSE Ok(<<rx.val>> \o rest.val, rx.log \o rest.log)

\* traverse._inner: [c.run(f(x)) for x in xs]
RECURSIVE traverse_inner(_, _, _)
traverse_inner(c, xs, f) ==
    IF xs = <<>> THEN Ok(<<>>, <<>>)
    ELSE LET rx == run(c, ApplyFn(f, Head(xs)))
         IN  IF ~rx.ok THEN rx
             ELSE LET rest == traverse_inner(c, Tail(xs), f)
                  IN  IF ~rest.ok THEN [rest EXCEPT !.log = rx.log \o rest.log]
                      ELSE Ok(<<rx.val>> \o rest.val, rx.log \o rest.log)

\* f(c), for a computation f
Invoke(f, c) ==
    CASE f.op = "pure" -> pure_inner(c, f.a)
      [] f.op = "ask" -> ask_inner(c, f.t)
      [] f.op = "service_call" -> service_inner(c, f.f, f.t, f.arg)
      [] f.op = "map" -> map_inner(c, f.ma, f.f)
      [] f.op = "bind" -> bind_inner(c, f.ma, f.f)
      [] f.op = "apply" -> apply_inner(c, f.mab, f.ma)
      [] f.op = "traverse" -> traverse_inner(c, f.xs, f.f)

\* Context.run: return f(self).  The log records every call of run.
run(self, f) ==
    LET r == Invoke(f, self)
    IN  [r EXCEPT !.log = <<[c |-> self, f |-> f]>> \o r.log]

\* ------------------------------------------ inputs of the combinators
Ids == {"a", "b"}
Ints == 0..(MaxInt - 1)

\* the dicts with keys in K and values in V
Dicts(K, V) ==
    UNION {{d \in [1..n -> [k : K, v : V]] :
                \A i, j \in 1..n : d[i].k = d[j].k => i = j} :
           n \in 0..Cardinality(K)}

SeqsUpTo(S, n) == UNION {[1..m -> S] : m \in 0..n}

\* ask(tag) and pure(value), as in the tests
Leaves == {pure(v) : v \in Ints} \cup {ask(t) : t \in Ids}

\* the computation-producing functions handed to bind and traverse
Fns ==
    {[fn |-> "pure"]}
    \cup {[fn |-> "with_service", f |-> o, t |-> t] :
              o \in {"add", "mul", "second"}, t \in Ids}
    \cup {[fn |-> "branch", t1 |-> t1, t2 |-> t2] : t1 \in Ids, t2 \in Ids}

\* lambda x: pipe(f(x), bind(g))
Kleisli(f, g) == [fn |-> "kleisli", f |-> f, g |-> g]

NoCall == [kind |-> "none"]

\* context.run(ask(t))
RunAsk ==
    /\ UNCHANGED <<storeVars, driverVars>>
    /\ call = NoCall
    /\ \E t \in Ids :
        /\ call' = [kind |-> "ask", t |-> t]
        /\ res' = run(env, ask(t))
        /\ res2' = res'
        /\ UNCHANGED env

\* context.run(then(mb)(ma)), that is then(ma, mb) of context.py
RunThen ==
    /\ UNCHANGED <<storeVars, driverVars>>
    /\ call = NoCall
    /\ \E ma \in Leaves, mb \in Leaves :
        /\ call' = [kind |-> "then", ma |-> ma, mb |-> mb]
        /\ res' = run(env, then(ma, mb))
        /\ res2' = res'
        /\ UNCHANGED env

\* context.run(bind(bind(ma, f), g)) and context.run(bind(ma, x -> bind(f(x), g)))
RunBind ==
    /\ UNCHANGED <<storeVars, driverVars>>
    /\ call = NoCall
    /\ \E ma \in Leaves, f \in Fns, g \in Fns :
        /\ call' = [kind |-> "bind", ma |-> ma, f |-> f, g |-> g]
        /\ res' = run(env, bind(bind(ma, f), g))
        /\ res2' = run(env, bind(ma, Kleisli(f, g)))
        /\ UNCHANGED env

\* context.run(traverse(f)(xs))
RunTraverse ==
    /\ UNCHANGED <<storeVars, driverVars>>
    /\ call = NoCall
    /\ \E xs \in SeqsUpTo(Ints, MaxXs), f \in Fns :
        /\ call' = [kind |-> "traverse", xs |-> xs, f |-> f]
        /\ res' = run(env, traverse(xs, f))
        /\ res2' = res'
        /\ UNCHANGED env

\* the caller takes the outcome; the Context is ready for the next call
Return ==
    /\ UNCHANGED <<storeVars, driverVars>>
    /\ call # NoCall
    /\ call' = NoCall
    /\ res' = Ok(NoValue, <<>>)
    /\ res2' = Ok(NoValue, <<>>)
    /\ UNCHANGED env

\* ------------------------------------------------ Context store: state
Services == {"s1", "s2"}

NoOp ==
    [op |-> "none", self |-> <<>>, other |-> <<>>, t |-> NoKey,
     service |-> NoValue, pairs |-> <<>>, result |-> <<>>,
     out |-> Ok(NoValue, <<>>)]

\* the store after Context(d) has been constructed
Construct(h, d) == Append(h, d)

\* self.join(other), for the Contexts i and j of the store: a new Context
heap_join_in_place(h, i, j) ==
    Construct([h EXCEPT ![i] = join(h[i], h[j])], join(h[i], h[j]))

heap_join(h, i, j) == Construct(h, join(h[i], h[j]))

\* self.extend(t, service), for the Context i of the store: a new Context
heap_extend(h, i, t, service) == Construct(h, extend(h[i], t, service))

Last(h) == h[Len(h)]

\* of(t)(service)
StoreOf ==
    /\ UNCHANGED <<driverVars, algVars>>
    /\ \E t \in Ids, service \in Services :
        /\ Len(heap) < MaxHeap
        /\ heap' = Construct(heap, of(service, t))
        /\ created' = Append(created, Last(heap'))
        /\ lastOp' = [NoOp EXCEPT !.op = "of", !.t = t, !.service = service,
                                  !.result = Last(heap')]

\* from_pairs(*pairs)
StoreFromPairs ==
    /\ UNCHANGED <<driverVars, algVars>>
    /\ \E pairs \in SeqsUpTo([k : Ids, v : Services], MaxPairs) :
        /\ Len(heap) < MaxHeap
        /\ heap' = Construct(heap, from_pairs(pairs))
        /\ created' = Append(created, Last(heap'))
        /\ lastOp' = [NoOp EXCEPT !.op = "from_pairs", !.pairs = pairs,
                                  !.result = Last(heap')]

\* from_dict(services)
StoreFromDict ==
    /\ UNCHANGED <<driverVars, algVars>>
    /\ \E services \in Dicts(Ids, Services) :
        /\ Len(heap) < MaxHeap
        /\ heap' = Construct(heap, from_dict(services))
        /\ created' = Append(created, Last(heap'))
        /\ lastOp' = [NoOp EXCEPT !.op = "from_dict", !.pairs = services,
                                  !.result = Last(heap')]

\* heap[i].join(heap[j])
StoreJoin ==
    /\ UNCHANGED <<driverVars, algVars>>
    /\ \E i \in 1..Len(heap), j \in 1..Len(heap) :
        /\ Len(heap) < MaxHeap
        /\ heap' = heap_join(heap, i, j)
        /\ created' = Append(created, Last(heap'))
        /\ lastOp' = [NoOp EXCEPT !.op = "join", !.self = heap[i],
                                  !.other = heap[j], !.result = Last(heap')]

\* heap[i].extend(t, service)
StoreExtend ==
    /\ UNCHANGED <<driverVars, algVars>>
    /\ \E i \in 1..Len(heap), t \in Ids, service \in Services :
        /\ Len(heap) < MaxHeap
        /\ heap' = heap_extend(heap, i, t, service)
        /\ created' = Append(created, Last(heap'))
        /\ lastOp' = [NoOp EXCEPT !.op = "extend", !.self = heap[i], !.t = t,
                                  !.service = service, !.result = Last(heap')]

\* heap[i].run(ask(t)): f(self) reads self._unsafe_map and assigns nothing
StoreRun ==
    /\ UNCHANGED <<driverVars, algVars>>
    /\ \E i \in 1..Len(heap), t \in Ids :
        /\ heap' = heap
        /\ created' = created
        /\ lastOp' = [NoOp EXCEPT !.op = "run", !.self = heap[i], !.t = t,
                                  !.out = run(heap[i], ask(t))]

\* ---------------------------------------------- requires / use: driver
None == "None"
NoTag == "no tag"
DVals == {None, "v1"}

\* a generator body: x1 = yield from use(t1); ...; then raise an exception
\* of its own or return the tuple of the values received
Yield(t) == [op |-> "yield", t |-> t, exc |-> "none"]
Raise(e) == [op |-> "raise", t |-> "x", exc |-> e]

YieldProgs == SeqsUpTo({Yield(t) : t \in Ids}, MaxProg)

Progs ==
    YieldProgs
    \cup {Append(p, Raise(e)) :
              p \in SeqsUpTo({Yield(t) : t \in Ids}, MaxProg - 1),
              e \in {"KeyError", "ValueError"}}

\* a value returned through StopIteration
ReturnValue(recv) == [isNone |-> FALSE, tuple |-> recv]
NoneValue == [isNone |-> TRUE, tuple |-> <<>>]

NoGen == [pc |-> 0, recv |-> <<>>, state |-> "none"]
\* gen = f(*args, **kwargs): a generator that has not started
FreshGen == [pc |-> 1, recv |-> <<>>, state |-> "created"]

call_f_cached(g) == IF g = NoGen THEN FreshGen ELSE g

call_f(g) == FreshGen

\* gen.send(value) if value is not None else next(gen)
resume_arg_next(v) == [kind |-> "next", v |-> None]

resume_arg(v) ==
    IF v # None THEN [kind |-> "send", v |-> v] ELSE resume_arg_next(v)

\* the generator protocol: run the body of g from where it stands to its
\* next yield, its return or its raise
GenResume(g, p, arg) ==
    IF g.state \notin {"created", "suspended"}
    THEN [ev |-> "stop", gen |-> g, t |-> NoTag, val |-> NoneValue,
          err |-> NoError]
    ELSE IF g.state = "created" /\ arg.kind = "send"
    THEN [ev |-> "raise", gen |-> [g EXCEPT !.state = "closed"], t |-> NoTag,
          val |-> NoneValue, err |-> OtherError("TypeError")]
    ELSE LET recv == IF g.state = "suspended" THEN Append(g.recv, arg.v)
                     ELSE g.recv
         IN  IF g.pc > Len(p)
             THEN [ev |-> "stop",
                   gen |-> [pc |-> g.pc, recv |-> recv, state |-> "closed"],
                   t |-> NoTag, val |-> ReturnValue(recv), err |-> NoError]
             ELSE IF p[g.pc].op = "yield"
             THEN [ev |-> "yield",
                   gen |-> [pc |-> g.pc + 1, recv |-> recv,
                            state |-> "suspended"],
                   t |-> p[g.pc].t, val |-> NoneValue, err |-> NoError]
             ELSE [ev |-> "raise",
                   gen |-> [pc |-> g.pc, recv |-> recv, state |-> "closed"],
                   t |-> NoTag, val |-> NoneValue,
                   err |-> IF p[g.pc].exc = "KeyError"
                           THEN RawKeyError(p[g.pc].t)
                           ELSE OtherError(p[g.pc].exc)]

\* value = c._unsafe_map[tag._id]
lookup_get(c, t) ==
    IF DictHas(c, t) THEN Ok(DictGet(c, t), <<>>) ELSE Ok(None, <<>>)

lookup(c, t) ==
    IF DictHas(c, t) THEN Ok(DictGet(c, t), <<>>)
    ELSE Fail(RawKeyError(t), <<>>)

\* except KeyError as e: raise KeyError(f"Tag {e} not found ...") from e
except_clause(e, c) == IF e.exc = "KeyError" THEN TagNotFound(e, c) ELSE e

NoOutcome == [status |-> "none", val |-> NoneValue, err |-> NoError]
Returned(v) == [status |-> "returned", val |-> v, err |-> NoError]
Raised(e) == [status |-> "raised", val |-> NoneValue, err |-> e]

Event(ev, x) == [ev |-> ev, x |-> x]

\* _inner, lines 178-179: gen = f(*args, **kwargs); value = None
Enter ==
    /\ gen' = call_f(gen)
    /\ value' = None
    /\ tag' = NoTag
    /\ dpc' = "resume"
    /\ outcome' = NoOutcome
    /\ prior' = outcome
    /\ trace' = <<>>
    /\ runs' = runs + 1

\* ctx.run(computation): a run of the computation value against ctx
Start ==
    /\ UNCHANGED <<storeVars, algVars>>
    /\ dpc \in {"idle", "returned", "raised"}
    /\ runs < MaxRuns
    /\ Enter
    /\ UNCHANGED <<prog, ctx>>

\* the caller catches the failure, builds ctx.extend(t, service) and runs
\* the same computation value against it
Rerun ==
    /\ UNCHANGED <<storeVars, algVars>>
    /\ \E t \in Ids, service \in DVals :
        /\ dpc = "raised"
        /\ runs < MaxRuns
        /\ ctx' = extend(ctx, t, service)
        /\ Enter
        /\ UNCHANGED prog

\* _inner, line 182, with the except clauses that catch what it raises
Resume ==
    /\ UNCHANGED <<storeVars, algVars>>
    /\ dpc = "resume"
    /\ LET arg == resume_arg(value)
           r == GenResume(gen, prog, arg)
       IN  /\ gen' = r.gen
           /\ trace' = trace \o <<Event(arg.kind, arg.v)>>
                       \o (IF r.ev = "yield" THEN <<Event("yield", r.t)>>
                           ELSE <<>>)
           /\ CASE r.ev = "yield" ->
                     /\ tag' = r.t
                     /\ dpc' = "lookup"
                     /\ outcome' = outcome
                [] r.ev = "stop" ->
                     /\ tag' = tag
                     /\ dpc' = "returned"
                     /\ outcome' = Returned(r.val)
                [] r.ev = "raise" ->
                     /\ tag' = tag
                     /\ dpc' = "raised"
                     /\ outcome' = Raised(except_clause(r.err, ctx))
    /\ UNCHANGED <<prog, ctx, value, runs, prior>>

\* _inner, line 183, with the except clause that catches what it raises
Lookup ==
    /\ UNCHANGED <<storeVars, algVars>>
    /\ dpc = "lookup"
    /\ LET r == lookup(ctx, tag)
       IN  /\ trace' = Append(trace, Event("lookup", tag))
           /\ IF r.ok
              THEN /\ value' = r.val
                   /\ dpc' = "resume"
                   /\ outcome' = outcome
              ELSE /\ value' = value
                   /\ dpc' = "raised"
                   /\ outcome' = Raised(except_clause(r.err, ctx))
    /\ UNCHANGED <<prog, ctx, gen, tag, runs, prior>>

\* -------------------------------------------------------- specifications
\* the Context store: no Context yet
InitStore ==
    /\ heap = <<>>
    /\ created = <<>>
    /\ lastOp = NoOp
    /\ prog = <<>>
    /\ ctx = <<>>
    /\ gen = NoGen
    /\ dpc = "idle"
    /\ value = None
    /\ tag = NoTag
    /\ outcome = NoOutcome
    /\ trace = <<>>
    /\ runs = 0
    /\ prior = NoOutcome
    /\ env = <<>>
    /\ call = NoCall
    /\ res = Ok(NoValue, <<>>)
    /\ res2 = Ok(NoValue, <<>>)

NextStore ==
    StoreOf \/ StoreFromPairs \/ StoreFromDict \/ StoreJoin \/ StoreExtend
    \/ StoreRun

SpecStore == InitStore /\ [][NextStore]_vars

\* the combinator algebra, over every Context with integer services
InitAlg ==
    /\ heap = <<>>
    /\ created = <<>>
    /\ lastOp = NoOp
    /\ prog = <<>>
    /\ ctx = <<>>
    /\ gen = NoGen
    /\ dpc = "idle"
    /\ value = None
    /\ tag = NoTag
    /\ outcome = NoOutcome
    /\ trace = <<>>
    /\ runs = 0
    /\ prior = NoOutcome
    /\ env \in Dicts(Ids, Ints)
    /\ call = NoCall
    /\ res = Ok(NoValue, <<>>)
    /\ res2 = Ok(NoValue, <<>>)

NextAlg == RunAsk \/ RunThen \/ RunBind \/ RunTraverse \/ Return

SpecAlg == InitAlg /\ [][NextAlg]_vars

\* the requires driver, over every generator body and every Context
InitDriver ==
    /\ heap = <<>>
    /\ created = <<>>
    /\ lastOp = NoOp
    /\ prog \in Progs
    /\ ctx \in Dicts(Ids, DVals)
    /\ gen = NoGen
    /\ dpc = "idle"
    /\ value = None
    /\ tag = NoTag
    /\ outcome = NoOutcome
    /\ trace = <<>>
    /\ runs = 0
    /\ prior = NoOutcome
    /\ env = <<>>
    /\ call = NoCall
    /\ res = Ok(NoValue, <<>>)
    /\ res2 = Ok(NoValue, <<>>)

NextDriver == Start \/ Rerun \/ Resume \/ Lookup

SpecDriver == InitDriver /\ [][NextDriver]_vars

\* ================================================================ claims
\* ------------------------------------------------------- Context store

\* C7: Contexts are immutable.  After any sequence of of / from_pairs /
\* from_dict / join / extend / run, every Context created earlier still
\* holds exactly the items it held at its creation; join and extend leave
\* self and other in the store as they were, and so does run, also a run
\* that fails.
C7_ContextsImmutable ==
    /\ Len(created) = Len(heap)
    /\ \A i \in 1..Len(heap) : heap[i] = created[i]
    /\ lastOp.op \in {"join", "extend", "run"} =>
           \E i \in 1..Len(heap) : heap[i] = lastOp.self /\ created[i] = lastOp.self
    /\ lastOp.op = "join" =>
           \E j \in 1..Len(heap) : heap[j] = lastOp.other /\ created[j] = lastOp.other

\* a join of two Contexts that differ from the result has been made while
\* other Contexts exist
C7_Witness ==
    /\ lastOp.op = "join"
    /\ Len(heap) = MaxHeap
    /\ lastOp.result # lastOp.self
    /\ lastOp.result # lastOp.other
    /\ lastOp.self # <<>>

\* the index of the last pair of pairs that carries identity k
LastIndexOf(pairs, k) ==
    CHOOSE i \in 1..Len(pairs) :
        pairs[i].k = k /\ \A j \in (i + 1)..Len(pairs) : pairs[j].k # k

\* d has no identity twice
WellFormed(d) == \A i, j \in 1..Len(d) : d[i].k = d[j].k => i = j

\* C8: the builders are last-writer-wins and drop no entry.  join holds the
\* union of both identity sets, other's value on the identities of other
\* and self's value on the others; extend holds self's entries with tag
\* mapped to service; from_pairs holds every pair's identity, mapped to the
\* value of the last pair carrying it.
C8_LastWriterWins ==
    LET r == lastOp.result
        a == lastOp.self
        b == lastOp.other
    IN  /\ lastOp.op = "join" =>
               /\ WellFormed(r)
               /\ KeySet(r) = KeySet(a) \cup KeySet(b)
               /\ \A k \in KeySet(b) : DictGet(r, k) = DictGet(b, k)
               /\ \A k \in KeySet(a) \ KeySet(b) : DictGet(r, k) = DictGet(a, k)
        /\ lastOp.op = "extend" =>
               /\ WellFormed(r)
               /\ KeySet(r) = KeySet(a) \cup {lastOp.t}
               /\ DictGet(r, lastOp.t) = lastOp.service
               /\ \A k \in KeySet(a) \ {lastOp.t} : DictGet(r, k) = DictGet(a, k)
        /\ lastOp.op \in {"from_pairs", "from_dict"} =>
               /\ WellFormed(r)
               /\ KeySet(r) = KeySet(lastOp.pairs)
               /\ \A k \in KeySet(r) :
                      DictGet(r, k) = lastOp.pairs[LastIndexOf(lastOp.pairs, k)].v

\* a join where both sides hold an identity with different values, and
\* self holds an identity other lacks
C8_Witness ==
    /\ lastOp.op = "join"
    /\ \E k \in KeySet(lastOp.self) \cap KeySet(lastOp.other) :
           DictGet(lastOp.self, k) # DictGet(lastOp.other, k)
    /\ KeySet(lastOp.self) \ KeySet(lastOp.other) # {}

\* ------------------------------------------------- combinator algebra

\* C3: running ask(tag) against a Context that lacks tag's identity fails
\* with the missing-service error, which reports the missing identity and
\* the list of the identities available in the Context.
C3_AskReportsAvailable ==
    (call.kind = "ask" /\ ~DictHas(env, call.t)) =>
        /\ ~res.ok
        /\ res.err.exc = "KeyError"
        /\ res.err.key = call.t
        /\ res.err.tagNotFound
        /\ res.err.available = DictKeys(env)

\* the number of calls of run in log that ran f against c
RunCount(log, c, f) ==
    Cardinality({i \in 1..Len(log) : log[i] = [c |-> c, f |-> f]})

\* C4: then(ma, mb), run against a Context that satisfies both, runs ma and
\* mb each once against that Context and returns mb's result.
C4_ThenReturnsMb ==
    (/\ call.kind = "then"
     /\ Invoke(call.ma, env).ok
     /\ Invoke(call.mb, env).ok) =>
        /\ res.ok
        /\ res.val = Invoke(call.mb, env).val
        /\ RunCount(res.log, env, call.ma) = (IF call.ma = call.mb THEN 2 ELSE 1)
        /\ RunCount(res.log, env, call.mb) = (IF call.ma = call.mb THEN 2 ELSE 1)

\* C5: bind is associative.  bind(bind(ma, f), g) and
\* bind(ma, x -> bind(f(x), g)), run against the same Context, both return
\* the same value or both fail for the same missing identity.
C5_BindAssociative ==
    call.kind = "bind" =>
        /\ res.ok = res2.ok
        /\ res.ok => res.val = res2.val
        /\ ~res.ok => /\ res.err.exc = "KeyError"
                      /\ res.err = res2.err

\* both sides of the law fail in g, after ma and f(x) have run, for an f
\* that chooses its computation by the value it is given
C5_Witness ==
    /\ call.kind = "bind"
    /\ call.f.fn = "branch"
    /\ call.g.fn = "with_service"
    /\ ~res.ok
    /\ ~res2.ok
    /\ Len(res.log) = 5
    /\ Len(res2.log) = 5

\* the computation traverse(xs, f) runs for element i
ElemComp(f, xs, i) == ApplyFn(f, xs[i])

\* the elements of xs whose computation fails against c
FailingElems(c, f, xs) ==
    {i \in 1..Len(xs) : ~Invoke(ElemComp(f, xs, i), c).ok}

\* the number of elements whose computation traverse runs
ElemsRun(c, f, xs) ==
    IF FailingElems(c, f, xs) = {} THEN Len(xs)
    ELSE CHOOSE i \in FailingElems(c, f, xs) :
             \A j \in FailingElems(c, f, xs) : i <= j

\* C6: traverse(xs, f) applies f to the elements in input order and runs
\* each computation against the same Context; the result has the length of
\* xs and holds the result for xs[i] at i.  When the computation of an
\* element fails, the run fails with that failure, returns no partial
\* result and runs the computation of no later element.
C6_TraverseInOrder ==
    call.kind = "traverse" =>
        LET xs == call.xs
            f == call.f
            n == ElemsRun(env, f, xs)
        IN  /\ res.log = <<[c |-> env, f |-> traverse(xs, f)]>>
                         \o [i \in 1..n |-> [c |-> env, f |-> ElemComp(f, xs, i)]]
            /\ FailingElems(env, f, xs) = {} =>
                   /\ res.ok
                   /\ Len(res.val) = Len(xs)
                   /\ \A i \in 1..Len(xs) :
                          res.val[i] = Invoke(ElemComp(f, xs, i), env).val
            /\ FailingElems(env, f, xs) # {} =>
                   /\ ~res.ok
                   /\ res.val = NoValue
                   /\ res.err = Invoke(ElemComp(f, xs, n), env).err

\* a traverse of three elements that fails on the second, after the first
\* has run
C6_Witness ==
    /\ call.kind = "traverse"
    /\ Len(call.xs) = 3
    /\ ~res.ok
    /\ Len(res.log) = 3

\* ------------------------------------------------------ requires driver
AllYields(p) == \A i \in 1..Len(p) : p[i].op = "yield"

\* p yields tags only, and c holds the identity of each
Satisfied(p, c) == AllYields(p) /\ \A i \in 1..Len(p) : DictHas(c, p[i].t)

\* the values c holds for the first n tags p yields
Values(p, c, n) == [k \in 1..n |-> DictGet(c, p[k].t)]

Yields(tr) == SelectSeq(tr, LAMBDA e : e.ev = "yield")
Lookups(tr) == SelectSeq(tr, LAMBDA e : e.ev = "lookup")
Resumes(tr) == SelectSeq(tr, LAMBDA e : e.ev \in {"next", "send"})

\* C1: a generator that yields tags t1..tn, run against a Context holding
\* all their identities.  The first resumption supplies no value; each tag
\* is looked up right after it is yielded, in the order of the yields; the
\* resumption after the k-th lookup supplies the Context's value for the
\* k-th tag, which is what the k-th suspension point receives (also for a
\* tag asked twice and for a value None); the run returns the generator's
\* return value; a generator that yields nothing completes on its first
\* resumption.
C1_ResolvesInOrder ==
    Satisfied(prog, ctx) =>
        /\ dpc # "raised"
        /\ trace # <<>> => trace[1] = Event("next", None)
        /\ \A i \in 2..Len(trace) :
               /\ trace[i].ev = "yield" => trace[i - 1].ev \in {"next", "send"}
               /\ trace[i].ev = "lookup" => trace[i - 1] = Event("yield", trace[i].x)
               /\ trace[i].ev \in {"next", "send"} =>
                      /\ trace[i - 1].ev = "lookup"
                      /\ trace[i].x = DictGet(ctx, trace[i - 1].x)
        /\ Len(Yields(trace)) <= Len(prog)
        /\ \A k \in 1..Len(Yields(trace)) : Yields(trace)[k].x = prog[k].t
        /\ Len(gen.recv) <= Len(prog)
        /\ gen.recv = Values(prog, ctx, Len(gen.recv))
        /\ dpc = "returned" =>
               /\ outcome = Returned(ReturnValue(Values(prog, ctx, Len(prog))))
               /\ Len(Yields(trace)) = Len(prog)
               /\ Len(Resumes(trace)) = Len(prog) + 1
        /\ (prog = <<>> /\ dpc = "returned") => Len(trace) = 1

\* a run has returned for a body that asks a tag twice and receives both
\* None and a value that is not None
C1_Witness ==
    /\ Satisfied(prog, ctx)
    /\ dpc = "returned"
    /\ Len(prog) = MaxProg
    /\ \E i, j \in 1..Len(prog) : i # j /\ prog[i].t = prog[j].t
    /\ \E k \in 1..Len(prog) : outcome.val.tuple[k] = None
    /\ \E k \in 1..Len(prog) : outcome.val.tuple[k] # None

\* the first suspension point of p whose tag c lacks
FirstMissing(p, c) ==
    CHOOSE m \in 1..Len(p) :
        ~DictHas(c, p[m].t) /\ \A k \in 1..(m - 1) : DictHas(c, p[k].t)

\* C2: a generator that yields tags, run against a Context that lacks the
\* identity of one of them.  The run fails at the first such suspension
\* point and not before: the earlier ones have been resolved and resumed in
\* order, no later one is reached, nothing is returned, and the failure
\* names the absent identity and lists the identities of the Context.
C2_FailsAtMissingTag ==
    (AllYields(prog) /\ ~Satisfied(prog, ctx)) =>
        LET m == FirstMissing(prog, ctx)
        IN  /\ dpc # "returned"
            /\ outcome.status # "returned"
            /\ Len(Yields(trace)) <= m
            /\ gen.pc <= m + 1
            /\ dpc # "raised" => outcome = NoOutcome
            /\ dpc = "raised" =>
                   /\ outcome = Raised([exc |-> "KeyError", key |-> prog[m].t,
                                        tagNotFound |-> TRUE,
                                        available |-> DictKeys(ctx)])
                   /\ tag = prog[m].t
                   /\ Len(Yields(trace)) = m
                   /\ Len(Lookups(trace)) = m
                   /\ \A k \in 1..m : /\ Yields(trace)[k].x = prog[k].t
                                       /\ Lookups(trace)[k].x = prog[k].t
                   /\ Len(Resumes(trace)) = m
                   /\ gen.recv = Values(prog, ctx, m - 1)

\* a run has failed at the second of three suspension points
C2_Witness ==
    /\ AllYields(prog)
    /\ ~Satisfied(prog, ctx)
    /\ Len(prog) = 3
    /\ FirstMissing(prog, ctx) = 2
    /\ dpc = "raised"

\* the outcome of a run of body p against c by a driver that has run nothing
\* before
RECURSIVE Drive(_, _, _, _)
Drive(p, c, g, v) ==
    LET r == GenResume(g, p, resume_arg(v))
    IN  CASE r.ev = "stop" -> Returned(r.val)
          [] r.ev = "raise" -> Raised(except_clause(r.err, c))
          [] r.ev = "yield" ->
                 LET l == lookup(c, r.t)
                 IN  IF l.ok THEN Drive(p, c, r.gen, l.val)
                     ELSE Raised(except_clause(l.err, c))

FirstRun(p, c) == Drive(p, c, FreshGen, None)

\* C9: every run of a requires-built computation starts a fresh sequence at
\* the first suspension point of the generator, and nothing of an earlier
\* run carries over: whatever ran before (also a run that failed on a
\* missing tag, followed by a run against the augmented Context), a run
\* ends as a first run against its Context ends.
C9_RunsAreIndependent ==
    /\ (dpc = "resume" /\ trace = <<>>) => gen = FreshGen
    /\ dpc \in {"returned", "raised"} => outcome = FirstRun(prog, ctx)
    /\ (runs >= 2 /\ Satisfied(prog, ctx)) => dpc # "raised"

\* the second run, against the augmented Context, has returned after the
\* first run failed on a missing tag at its second suspension point
C9_Witness ==
    /\ runs = 2
    /\ AllYields(prog)
    /\ Len(prog) >= 2
    /\ prior.status = "raised"
    /\ prior.err.tagNotFound
    /\ prior.err.key = prog[2].t
    /\ dpc = "returned"
    /\ outcome.val.tuple[2] # None

\* C10: a run reports 'Tag ... not found in context' only when the tag most
\* recently yielded has an identity the Context lacks; a failure raised by
\* the generator body's own code propagates as itself.
C10_OnlyMissingTagsAreReported ==
    /\ (outcome.status = "raised" /\ outcome.err.tagNotFound) =>
           (tag # NoTag /\ ~DictHas(ctx, tag))
    /\ (/\ dpc = "raised"
        /\ gen.state = "closed"
        /\ gen.pc <= Len(prog)
        /\ prog[gen.pc].op = "raise") =>
           outcome.err = (IF prog[gen.pc].exc = "KeyError"
                          THEN RawKeyError(prog[gen.pc].t)
                          ELSE OtherError(prog[gen.pc].exc))

====
